---------------------------- MODULE Spec2Model ----------------------------
(***************************************************************************)
(* A model of the ACP (Agent Client Protocol) client implemented by        *)
(* scripts/test-acp.py and .opencode/skills/acp/test-acp.py: a child       *)
(* process (the peer) writes newline-delimited JSON-RPC frames to its      *)
(* stdout, a reader thread moves them into _response_queue, and the main   *)
(* thread runs initialize -> session/new -> [session/set_model] ->         *)
(* [session/set_mode] -> session/prompt, draining the queue with           *)
(* read_responses after each configuration request and with read_streaming *)
(* after the prompt.                                                       *)
(*                                                                         *)
(* Spec runs main() from its first request until it leaves the try block.  *)
(* SpecStreaming starts in the state main() is in when it enters           *)
(* read_streaming after an uneventful handshake (a state Spec reaches),    *)
(* and lets the peer emit more frames during the prompt turn than Spec's   *)
(* budget allows.  SpecCleanup is Spec followed by the finally block of    *)
(* main(), and SpecSignal is SpecCleanup with a SIGINT or SIGTERM          *)
(* delivered to either script at any time.  SpecThreads runs the threads   *)
(* of skills/acp/test-acp.py with a child that also writes to stderr,      *)
(* SpecExit is SpecStreaming with a child that may exit by itself,         *)
(* SpecTimed is the handshake with a clock, and SpecGen is the prompt turn *)
(* of .opencode/skills/test-case-generation/test-gen-acp.py, whose         *)
(* read_streaming collects the agent's text and writes nothing.            *)
(***************************************************************************)
EXTENDS Integers, Sequences, FiniteSets, TLC

VARIABLES
    pipe,           \* lines the peer has written to stdout, not yet read by _stdout_reader
    queue,          \* _response_queue
    reader_started, \* _reader_started
    threads,        \* history: the targets of the threads _start_reader has started, in order
    emitted,        \* history: every line the peer has written to stdout
    budget,         \* number of lines the peer may still write (to stdout or stderr)
    deq,            \* history: number of lines the main thread has taken from the queue
    stream_start,   \* history: value of deq when read_streaming was entered
    pc,             \* position of main(): the request being awaited, or start/cleanup/done
    use_model,      \* args.model is given
    use_mode,       \* args.mode is given
    responses,      \* the list read_responses is filling
    timeout,        \* the timeout of the next _response_queue.get
    session_id,     \* session_id of main()
    req_id,         \* req_id of main()
    msg_count,      \* msg_count of read_streaming
    stdin,          \* every frame written to the child's stdin, in order
    out,            \* what the scripts report (their prints), in order
    status,         \* how the run stands: running, Completed, TimedOut, Error, Exception,
                    \* Signalled (SystemExit raised by _signal_handler or
                    \* KeyboardInterrupt), Killed (ended by an unhandled SIGTERM)
    script,         \* which of the two scripts is running
    current_model,  \* the current model id main() last printed ("currentModel:",
                    \* "Model set to:"); Absent for '?'
    child,          \* the child process: running, terminating (SIGTERM sent), exited, killed
    calls,          \* history: the calls made on proc to end the child, in order
    signalled,      \* history: a SIGINT or SIGTERM has been delivered to the script
    heartbeat,      \* the _heartbeat thread: none, running, stopped (_heartbeat_stop is set)
    beats,          \* history: number of heartbeat lines printed
    err_emitted,    \* history: every line the child has written to stderr
    err_read,       \* history: number of those _stderr_reader has read and printed
    full_text,      \* full_text of read_streaming of test-gen-acp.py
    debug,          \* _debug of test-gen-acp.py (--debug)
    now,            \* the time in seconds since main() started (advances in SpecTimed only)
    call_start,     \* history: the time at which read_responses or read_streaming was called
    get_start       \* the time at which the pending _response_queue.get was called

vars == <<pipe, queue, reader_started, threads, emitted, budget, deq, stream_start, pc,
          use_model, use_mode, responses, timeout, session_id, req_id,
          msg_count, stdin, out, status, script, current_model, child, calls,
          signalled, heartbeat, beats, err_emitted, err_read, full_text, debug,
          now, call_start, get_start>>

peerVars == <<pipe, emitted, budget>>
argVars  == <<use_model, use_mode>>
\* what only the signal, heartbeat and stderr actions change
\* what only read_streaming of test-gen-acp.py uses
genVars  == <<full_text, debug>>
envVars  == <<script, signalled, beats, err_emitted, err_read, genVars, now>>
\* the times read_responses and read_streaming go by
clockVars == <<call_start, get_start>>
procVars == <<child, calls>>
\* everything of main(), the stdout reader and the peer's stdout but the position of main()
mainVars == <<peerVars, queue, reader_started, threads, deq, stream_start, argVars, responses,
              timeout, session_id, req_id, msg_count, stdin, out, status, current_model,
              heartbeat>>

-----------------------------------------------------------------------------
(* Bounds *)

\* lines the peer may write during a run of Spec
MaxEmit == 3
\* lines the peer may write during the prompt turn of SpecStreaming
MaxStreamEmit == 3
\* lines the peer may write to stdout and stderr during a run of SpecThreads,
\* and heartbeat lines the heartbeat thread may print
MaxThreadEmit == 2
MaxBeats == 1
\* lines the peer may write during the prompt turn of SpecGen
MaxGenEmit == 3
\* lines the peer may write during a run of SpecTimed
MaxTimedEmit == 2
\* lines the peer may write during a run of SpecTurn
MaxTurnEmit == 2

\* seconds the clock of SpecTimed runs for
MaxTime == 12

-----------------------------------------------------------------------------
(* Lines and frames.  A line is what readline() returns; form says what     *)
(* json.loads makes of it after strip(): nothing (blank), a decode error    *)
(* (raw), a JSON value that is not an object (array), or an object.  The    *)
(* members of an object that the scripts look at are fields; Absent marks   *)
(* a member the object does not have, and id 0 an object without "id".      *)

Absent == "<absent>"
NoId == 0

Line(form, method, id, body, stop, sid, tag, text, options) ==
    [form |-> form, method |-> method, id |-> id, body |-> body, stop |-> stop,
     sid |-> sid, tag |-> tag, text |-> text, options |-> options, model |-> Absent]

BlankLine == Line("blank", Absent, NoId, Absent, Absent, Absent, Absent, Absent, <<>>)
RawLine   == Line("raw", Absent, NoId, Absent, Absent, Absent, Absent, Absent, <<>>)
ArrayLine == Line("array", Absent, NoId, Absent, Absent, Absent, Absent, Absent, <<>>)
NoLine    == Line("none", Absent, NoId, Absent, Absent, Absent, Absent, Absent, <<>>)

\* {"jsonrpc":"2.0","id":id,"result":{...}}; stop and sid are the result's
\* stopReason and sessionId members (Absent when it has none)
Result(id, stop, sid) ==
    Line("object", Absent, id, "result", stop, sid, Absent, Absent, <<>>)

\* {"jsonrpc":"2.0","id":id,"result":{"sessionId":sid,"models":{"currentModelId":model}}};
\* model is the current model id the result names (Absent when it names none)
SessionResult(id, sid, model) == [Result(id, Absent, sid) EXCEPT !.model = model]

\* {"jsonrpc":"2.0","id":id,"error":{...}}
Error(id) == Line("object", Absent, id, "error", Absent, Absent, Absent, Absent, <<>>)

\* {"jsonrpc":"2.0","method":"session/update","params":{"update":{"sessionUpdate":tag,
\*  "content":{"type":"text","text":text}}}}; text is Absent for an update whose
\* content is not of type text
Update(tag, text) ==
    Line("object", "session/update", NoId, Absent, Absent, Absent, tag, text, <<>>)

\* a session/update frame that also has an "id" member
UpdateRequest(id, tag, text) ==
    Line("object", "session/update", id, Absent, Absent, Absent, tag, text, <<>>)

\* {"jsonrpc":"2.0","id":id,"method":"session/request_permission","params":{"options":[...]}}
PermissionRequest(id, options) ==
    Line("object", "session/request_permission", id, Absent, Absent, Absent,
         Absent, Absent, options)

\* any other frame with a method: a request when id # NoId, else a notification
MethodFrame(method, id) ==
    Line("object", method, id, Absent, Absent, Absent, Absent, Absent, <<>>)

Option(optionId, kind) == [optionId |-> optionId, kind |-> kind]

-----------------------------------------------------------------------------
(* Frames the client writes to the child's stdin *)

OutFrame(type, id, method, sid, outcome, optionId, code) ==
    [type |-> type, id |-> id, method |-> method, sessionId |-> sid,
     outcome |-> outcome, optionId |-> optionId, code |-> code]

\* the JSON-RPC error code of the "Method not supported" reply
MethodNotFound == -32601

\* send_jsonrpc: the request frame written for (method, request_id); sid is the
\* sessionId member of params (Absent for initialize and session/new)
Request(method, id, sid) == OutFrame("request", id, method, sid, Absent, Absent, 0)

\* the permission reply of read_streaming
SelectedResponse(id, optionId) ==
    OutFrame("result", id, Absent, Absent, "selected", optionId, 0)

\* a reply with the code of "Invalid Request"
ErrResponseInvalidRequest(id) ==
    OutFrame("error", id, Absent, Absent, Absent, Absent, -32600)

\* the method-not-supported reply of read_streaming
ErrResponse(id) ==
    OutFrame("error", id, Absent, Absent, Absent, Absent, MethodNotFound)

-----------------------------------------------------------------------------
(* What the scripts report.  An event names what was printed (ev), the step *)
(* of main() that printed it, the id of the request that step is awaiting,  *)
(* and the line it is about; the timeout report of read_streaming also      *)
(* carries the two numbers it prints (n and secs, 0 in every other event).  *)

Report(ev, step, rid, line, n, secs) ==
    [ev |-> ev, step |-> step, rid |-> rid, line |-> line, n |-> n, secs |-> secs]

Event(ev, step, rid, line) == Report(ev, step, rid, line, 0, 0)

\* a timeout report that leaves the message count out
TimeoutReportNoCount(step, rid, n, secs) == Report("timeout", step, rid, NoLine, 0, secs)

\* "[timeout after {timeout}s, received {msg_count} messages total]"
TimeoutReport(step, rid, n, secs) == Report("timeout", step, rid, NoLine, n, secs)


-----------------------------------------------------------------------------
(* Program constants *)

\* request_id of initialize and of session/new; first value of req_id
InitializeId == 1
SessionNewId == 2
\* a first id for the optional steps that is the id of session/new
FirstReqIdReused == SessionNewId
FirstReqId == 3
\* read_responses(proc, timeout=10), and the timeout it uses after the first line
ResponseTimeout == 10
QuietTimeout == 1
\* default of --timeout, passed to read_streaming
StreamingTimeout == 60

ConfigSteps == {"initialize", "session/new", "session/set_model", "session/set_mode"}

\* the two scripts: scripts/test-acp.py and .opencode/skills/acp/test-acp.py
Scripts == "scripts/test-acp.py"
Skills == "skills/acp/test-acp.py"
TestGen == "skills/test-case-generation/test-gen-acp.py"
\* read_streaming(proc, timeout=120) of test-gen-acp.py
GenTimeout == 120

-----------------------------------------------------------------------------
(* The peer: a black box that writes lines to its stdout.  It answers only  *)
(* requests it has been sent (a response carries the id of the latest       *)
(* request or of the one before it), and it emits the frames of a prompt    *)
(* turn only once session/prompt has been written to it.                    *)

Max(S) == CHOOSE x \in S : \A y \in S : y <= x

RequestIds == {stdin[i].id : i \in {j \in DOMAIN stdin : stdin[j].type = "request"}}

PromptSent == \E i \in DOMAIN stdin :
                 stdin[i].type = "request" /\ stdin[i].method = "session/prompt"

AllowAmongRejects ==
    <<Option("r1", "reject_once"), Option("a1", "allow_once"),
      Option("a2", "allow_always"), Option("r2", "reject_always")>>

\* a response to session/new names session S1; a result with a sessionId member
\* under another id names S2
ConfigLines ==
    LET last == IF RequestIds = {} THEN 0 ELSE Max(RequestIds)
        ids  == {last, last - 1} \cap RequestIds
    IN  {Result(i, Absent, Absent) : i \in ids}
          \cup {SessionResult(i, IF i = SessionNewId THEN "S1" ELSE "S2", "m0") : i \in ids}
          \cup {SessionResult(i, "", Absent) : i \in ids \cap {SessionNewId}}
          \cup {Error(i) : i \in ids}
          \cup {Update("agent_message_chunk", "Hello"),
                PermissionRequest(7, AllowAmongRejects),
                RawLine, ArrayLine, BlankLine}

StreamLines ==
    LET p == Max(RequestIds)
    IN  {Result(p, "end_turn", Absent), Result(p, Absent, Absent), Error(p),
         Result(SessionNewId, "end_turn", Absent),
         Update("agent_message_chunk", "Hello"), Update("agent_message_chunk", "!"),
         Update("mystery", Absent),
         UpdateRequest(9, "agent_message_chunk", "Hello"),
         PermissionRequest(7, AllowAmongRejects),
         PermissionRequest(7, <<Option("r1", "reject_once")>>),
         PermissionRequest(NoId, <<Option("a1", "allow_once")>>),
         MethodFrame("fs/read_text_file", 8),
         MethodFrame("x/notify", NoId),
         RawLine, ArrayLine, BlankLine}

\* what the peer may write during the prompt turn of test-gen-acp.py
GenStreamLines ==
    LET p == Max(RequestIds)
    IN  {Result(p, "completed", Absent), Result(p, "", Absent), Result(p, Absent, Absent),
         Error(p),
         Update("agent_message_chunk", "Hello"), Update("agent_message_chunk", "!"),
         Update("agent_message_chunk", Absent),
         Update("tool_call", Absent),
         Update("mystery", Absent),
         PermissionRequest(7, AllowAmongRejects),
         MethodFrame("fs/read_text_file", 8),
         RawLine, ArrayLine, BlankLine}

PeerLines ==
    IF ~PromptSent THEN ConfigLines
    ELSE IF script = TestGen THEN GenStreamLines ELSE StreamLines

PeerEmit ==
    /\ budget > 0
    /\ pc # "done"
    /\ child \in {"running", "terminating"}
    /\ \E line \in PeerLines :
          /\ pipe' = Append(pipe, line)
          /\ emitted' = Append(emitted, line)
    /\ budget' = budget - 1
    /\ UNCHANGED <<queue, reader_started, threads, deq, stream_start, pc, argVars, responses,
                   timeout, session_id, req_id, msg_count, stdin, out, status,
                   envVars, procVars, current_model, heartbeat>>
    /\ UNCHANGED clockVars

-----------------------------------------------------------------------------
(* _start_reader and the stdout reader thread *)

\* a queue that hands out the newest item first
PutLifo(q, item) == <<item>> \o q

\* a get that returns the newest item of the queue
GetNewest(q) == q[Len(q)]

\* queue.Queue.put and the item queue.Queue.get returns
Put(q, item) == Append(q, item)
Get(q) == Head(q)

\* a reader thread that itself refuses the peer's requests
StdoutReaderReplying ==
    /\ reader_started
    /\ pipe # <<>>
    /\ queue' = Put(queue, Head(pipe))
    /\ pipe' = Tail(pipe)
    /\ stdin' = IF Head(pipe).method # Absent /\ Head(pipe).id # NoId
                  THEN Append(stdin, ErrResponse(Head(pipe).id)) ELSE stdin
    /\ UNCHANGED <<emitted, budget, reader_started, threads, deq, stream_start, pc, argVars,
                   responses, timeout, session_id, req_id, msg_count, out, status,
                   envVars, procVars, current_model, heartbeat>>
    /\ UNCHANGED clockVars

\* one iteration of _stdout_reader: readline() returned a line, put it on the queue
StdoutReader ==
    /\ reader_started
    /\ pipe # <<>>
    /\ queue' = Put(queue, Head(pipe))
    /\ pipe' = Tail(pipe)
    /\ UNCHANGED <<emitted, budget, reader_started, threads, deq, stream_start, pc, argVars,
                   responses, timeout, session_id, req_id, msg_count, stdin, out, status,
                   envVars, procVars, current_model, heartbeat>>
    /\ UNCHANGED clockVars

\* what the child may write to its stderr: a log text, an empty line, and a
\* line that reads as a JSON-RPC response completing the turn
ErrLines == {RawLine, BlankLine, Result(99, "end_turn", Absent)}

\* the child writes a line to its stderr
StderrEmit ==
    /\ budget > 0
    /\ pc # "done"
    /\ child \in {"running", "terminating"}
    /\ \E line \in ErrLines : err_emitted' = Append(err_emitted, line)
    /\ budget' = budget - 1
    /\ UNCHANGED <<pipe, emitted, queue, reader_started, threads, deq, stream_start, argVars,
                   responses, timeout, session_id, req_id, msg_count, stdin, out, status,
                   current_model, heartbeat, pc, procVars, script, signalled, beats,
                   err_read, genVars, now>>
    /\ UNCHANGED clockVars

\* a stderr reader thread that puts its lines on the response queue
StderrReaderQueueing ==
    /\ reader_started
    /\ err_read < Len(err_emitted)
    /\ err_read' = err_read + 1
    /\ queue' = Put(queue, err_emitted[err_read + 1])
    /\ UNCHANGED <<peerVars, reader_started, threads, deq, stream_start, argVars,
                   responses, timeout, session_id, req_id, msg_count, stdin, out, status,
                   current_model, heartbeat, pc, procVars, script, signalled, beats,
                   err_emitted, genVars, now>>
    /\ UNCHANGED clockVars

\* the lines _stderr_reader has printed as "[STDERR] ...", in order: those it
\* has read that are not empty after strip()
StderrPrinted ==
    SelectSeq(SubSeq(err_emitted, 1, err_read), LAMBDA l : l.form # "blank")

\* one iteration of _stderr_reader: readline() returned a line, print it
\* unless it is blank
StderrReader ==
    /\ reader_started
    /\ err_read < Len(err_emitted)
    /\ err_read' = err_read + 1
    /\ UNCHANGED <<mainVars, pc, procVars, script, signalled, beats, err_emitted, genVars, now>>
    /\ UNCHANGED clockVars

\* one iteration of _heartbeat of skills/acp/test-acp.py past the wait: the
\* stop event is not set, print the elapsed time, proc.poll() and the queue size
Heartbeat ==
    /\ heartbeat = "running"
    /\ pc # "done"
    /\ beats < MaxBeats
    /\ beats' = beats + 1
    /\ UNCHANGED <<mainVars, pc, procVars, script, signalled, err_emitted, err_read, genVars, now>>
    /\ UNCHANGED clockVars

-----------------------------------------------------------------------------
(* read_responses *)

\* json.loads(line.strip()) succeeds
Parses(line) == line.form \in {"array", "object"}

\* isinstance(resp, dict)
IsDict(line) == line.form = "object"

\* request_id of the request main() is awaiting the response to
AwaitedId ==
    CASE pc = "initialize" -> InitializeId
      [] pc = "session/new" -> SessionNewId
      [] OTHER -> req_id

\* one iteration of the loop of read_responses with a line on the queue
ReadResponsesGet ==
    /\ pc \in ConfigSteps
    /\ queue # <<>>
    /\ LET line == Get(queue) IN
          /\ queue' = Tail(queue)
          /\ deq' = deq + 1
          /\ get_start' = now
          /\ IF line.form = "blank"
               THEN UNCHANGED <<responses, timeout, out>>
               ELSE /\ timeout' = QuietTimeout
                    /\ IF Parses(line)
                         THEN /\ responses' = Append(responses, line)
                              /\ out' = out
                         ELSE /\ out' = Append(out, Event("RAW", pc, AwaitedId, line))
                              /\ responses' = responses
    /\ UNCHANGED <<peerVars, reader_started, threads, stream_start, pc, argVars, session_id,
                   req_id, msg_count, stdin, status, envVars, procVars, current_model,
                   heartbeat, call_start>>


-----------------------------------------------------------------------------
(* main(): each action runs from the return of one wait to the next wait *)

\* the two threads _start_reader starts, in the order it starts them
ReaderThreads == <<"_stdout_reader", "_stderr_reader">>

\* a _start_reader that does not test _reader_started
StartReaderEveryCall ==
    /\ reader_started' = TRUE
    /\ threads' = threads \o ReaderThreads

\* _start_reader(proc): nothing when _reader_started is set, else set it and
\* start the stdout reader thread and the stderr reader thread
StartReader ==
    /\ reader_started' = TRUE
    /\ threads' = IF reader_started THEN threads ELSE threads \o ReaderThreads

\* send_jsonrpc(proc, method, params, request_id) followed by the entry of
\* read_responses or read_streaming: _start_reader, the locals, the first get
SendAndWait(method, id, sid) ==
    /\ stdin' = Append(stdin, Request(method, id, sid))
    /\ pc' = method
    /\ StartReader
    /\ call_start' = now
    /\ get_start' = now
    /\ responses' = <<>>
    /\ IF method = "session/prompt"
         THEN /\ timeout' = StreamingTimeout
              /\ msg_count' = 0
              /\ stream_start' = deq
              /\ heartbeat' = IF script = Skills THEN "running" ELSE heartbeat
         ELSE /\ timeout' = ResponseTimeout
              /\ UNCHANGED <<msg_count, stream_start, heartbeat>>

\* return out of the try block into the finally block
Leave(result) ==
    /\ pc' = "cleanup"
    /\ status' = result
    /\ UNCHANGED <<stdin, reader_started, threads, responses, timeout, msg_count, stream_start,
                   heartbeat>>
    /\ UNCHANGED clockVars

\* Step 1
SendInitialize ==
    /\ pc = "start"
    /\ SendAndWait("initialize", InitializeId, Absent)
    /\ UNCHANGED <<peerVars, queue, deq, argVars, session_id, req_id, out, status,
                   envVars, procVars, current_model>>

\* queue.Empty in read_responses of step 1, then main() up to the wait of step 2
InitializeReturn ==
    /\ pc = "initialize"
    /\ queue = <<>>
    /\ IF responses = <<>>
         THEN /\ out' = Append(out, Event("no-response", pc, AwaitedId, NoLine))
              /\ Leave("Error")
         ELSE IF ~IsDict(responses[1])
         THEN \* responses[0].get raises AttributeError
              /\ out' = Append(out, Event("exception", pc, AwaitedId, responses[1]))
              /\ Leave("Exception")
         ELSE /\ out' = Append(out, Event("init", pc, AwaitedId, responses[1]))
              /\ SendAndWait("session/new", SessionNewId, Absent)
              /\ UNCHANGED status
    /\ UNCHANGED <<peerVars, queue, deq, argVars, session_id, req_id, envVars, procVars,
                   current_model>>

\* "sessionId" in result, for result = resp.get("result") or {}
HasSessionId(resp) == IsDict(resp) /\ resp.body = "result" /\ resp.sid # Absent

\* a loop over responses without the break: the last response with a sessionId
LastSession(rs) ==
    LET S == {i \in DOMAIN rs : HasSessionId(rs[i])}
    IN  IF S = {} THEN 0 ELSE CHOOSE i \in S : \A j \in S : j <= i

\* index of the response the loop over responses breaks at, 0 when it runs to the end
FirstSession(rs) ==
    LET S == {i \in DOMAIN rs : HasSessionId(rs[i])}
    IN  IF S = {} THEN 0 ELSE CHOOSE i \in S : \A j \in S : i <= j

\* the step that follows session/new, and the one that follows session/set_model
AfterSessionNew ==
    IF use_model THEN "session/set_model"
    ELSE IF use_mode THEN "session/set_mode" ELSE "session/prompt"
\* a step 3 that is followed by step 3 again
AfterSetModelRepeats == "session/set_model"
AfterSetModel == IF use_mode THEN "session/set_mode" ELSE "session/prompt"

\* a test that takes only a missing session id for no session id
FalsyNoneOnly(sid) == sid = Absent

\* not session_id: None (no response had a sessionId) or the empty string
Falsy(sid) == sid \in {Absent, ""}

\* queue.Empty in read_responses of step 2, then main() up to the next wait
SessionNewReturn ==
    /\ pc = "session/new"
    /\ queue = <<>>
    /\ LET k == FirstSession(responses)
           sid == IF k = 0 THEN Absent ELSE responses[k].sid
       IN  IF responses = <<>>
             THEN /\ out' = Append(out, Event("no-response", pc, AwaitedId, NoLine))
                  /\ Leave("Error")
                  /\ UNCHANGED <<session_id, req_id, current_model>>
             ELSE IF Falsy(sid)
             THEN \* not session_id
                  /\ out' = Append(out, Event("no-session", pc, AwaitedId, NoLine))
                  /\ session_id' = sid
                  /\ current_model' = IF k = 0 THEN current_model ELSE responses[k].model
                  /\ Leave("Error")
                  /\ UNCHANGED req_id
             ELSE /\ out' = Append(out, Event("session", pc, AwaitedId, responses[k]))
                  /\ session_id' = sid
                  /\ current_model' = responses[k].model
                  /\ req_id' = FirstReqId
                  /\ SendAndWait(AfterSessionNew, FirstReqId, sid)
                  /\ UNCHANGED status
    /\ UNCHANGED <<peerVars, queue, deq, argVars, envVars, procVars>>

\* the loops of steps 3 and 4 over responses: one report per dict response
StepReports(rs, step, rid) ==
    LET dicts == SelectSeq(rs, IsDict)
    IN  [i \in 1..Len(dicts) |->
            Event(IF dicts[i].body = "error" THEN "step-error" ELSE "step-result",
                  step, rid, dicts[i])]

\* a set_model step that takes the requested model as set whatever the answer
ModelSetToAssumed(rs, cur) == "m1"

\* the loop of step 3: "Model set to: {model_id}" is printed for every dict
\* response without "error" whose result names a current model id
ModelSetTo(rs, cur) ==
    LET named == SelectSeq(rs, LAMBDA r : IsDict(r) /\ r.body # "error" /\ r.model # Absent)
    IN  IF named # <<>> THEN named[Len(named)].model ELSE cur

\* a step 3 that returns from main() when a response has an "error" member
SetModelReturnAbortOnError ==
    /\ pc = "session/set_model"
    /\ queue = <<>>
    /\ out' = out \o StepReports(responses, pc, req_id)
    /\ IF \E i \in DOMAIN responses : IsDict(responses[i]) /\ responses[i].body = "error"
         THEN /\ Leave("Error")
              /\ UNCHANGED req_id
         ELSE /\ req_id' = req_id + 1
              /\ SendAndWait(AfterSetModel, req_id + 1, session_id)
              /\ UNCHANGED status
    /\ current_model' = ModelSetTo(responses, current_model)
    /\ UNCHANGED <<peerVars, queue, deq, argVars, session_id, envVars, procVars>>

\* queue.Empty in read_responses of step 3, then main() up to the next wait
SetModelReturn ==
    /\ pc = "session/set_model"
    /\ queue = <<>>
    /\ out' = out \o StepReports(responses, pc, req_id)
    /\ req_id' = req_id + 1
    /\ SendAndWait(AfterSetModel, req_id + 1, session_id)
    /\ current_model' = ModelSetTo(responses, current_model)
    /\ UNCHANGED <<peerVars, queue, deq, argVars, session_id, status, envVars, procVars>>

\* queue.Empty in read_responses of step 4, then main() up to read_streaming's wait
SetModeReturn ==
    /\ pc = "session/set_mode"
    /\ queue = <<>>
    /\ out' = out \o StepReports(responses, pc, req_id)
    /\ req_id' = req_id + 1
    /\ SendAndWait("session/prompt", req_id + 1, session_id)
    /\ UNCHANGED <<peerVars, queue, deq, argVars, session_id, status, envVars, procVars,
                   current_model>>


-----------------------------------------------------------------------------
(* read_streaming *)

AllowKinds == {"allow_once", "allow_always"}

\* a loop that keeps the last option whatever its kind
AllowOptionAnyKind(options) ==
    IF options = <<>> THEN <<>> ELSE <<options[Len(options)]>>

\* a loop that stops at the first option of an allow kind
AllowOptionFirst(options) ==
    LET S == {i \in DOMAIN options : options[i].kind \in AllowKinds}
    IN  IF S = {} THEN <<>> ELSE <<options[CHOOSE i \in S : \A j \in S : i <= j]>>

\* the loop over options: allow_option is assigned at every option of an allow
\* kind, so it ends as the last of them; <<>> stands for None
AllowOption(options) ==
    LET S == {i \in DOMAIN options : options[i].kind \in AllowKinds}
    IN  IF S = {} THEN <<>> ELSE <<options[Max(S)]>>

\* the branch of the if/elif chain of read_streaming a parsed object takes
Classify(parsed) ==
    CASE parsed.method = "session/update" -> "update"
      [] parsed.method = "session/request_permission" -> "permission"
      [] parsed.method # Absent /\ parsed.id # NoId -> "request"
      [] parsed.body = "result" -> "result"
      [] parsed.body = "error" -> "error"
      [] OTHER -> "unknown"

\* a permission branch that looks at the kind of the first option only
PermissionReplyFirstOnly(parsed) ==
    IF parsed.options # <<>> /\ parsed.options[1].kind \in AllowKinds /\ parsed.id # NoId
      THEN <<SelectedResponse(parsed.id, parsed.options[1].optionId)>>
      ELSE <<>>

\* what the permission branch writes to stdin
PermissionReply(parsed) ==
    LET allow == AllowOption(parsed.options)
    IN  IF allow # <<>> /\ parsed.id # NoId
          THEN <<SelectedResponse(parsed.id, allow[1].optionId)>>
          ELSE <<>>

\* an incoming-request branch that writes its reply twice
RequestReplyTwice(parsed) == <<ErrResponse(parsed.id), ErrResponse(parsed.id)>>

\* what the incoming-request branch writes to stdin
RequestReply(parsed) == <<ErrResponse(parsed.id)>>

\* isinstance(result, dict) and "stopReason" in result
HasStopReason(parsed) == parsed.stop # Absent

\* the child has not exited, so the pipe to its stdin has a reader
StdinOpen == child \in {"running", "terminating"}

\* _heartbeat_stop.set(), which main() calls when read_streaming has returned
Stopped(hb) == IF hb = "running" THEN "stopped" ELSE hb

\* one iteration of the loop of read_streaming with a line on the queue
ReadStreamingGet ==
    /\ pc = "session/prompt"
    /\ queue # <<>>
    /\ LET line == Get(queue)
           branch == Classify(line)
           ev(name) == Event(name, pc, req_id, line)
       IN
          /\ queue' = Tail(queue)
          /\ deq' = deq + 1
          /\ get_start' = now
          /\ CASE line.form = "blank" ->
                    UNCHANGED <<msg_count, out, stdin, pc, status, heartbeat>>
               [] line.form = "raw" ->
                    /\ out' = Append(out, ev("RAW"))
                    /\ UNCHANGED <<msg_count, stdin, pc, status, heartbeat>>
               [] line.form = "array" ->
                    \* parsed.get raises AttributeError, caught in main()
                    /\ msg_count' = msg_count + 1
                    /\ out' = Append(out, ev("exception"))
                    /\ pc' = "cleanup"
                    /\ status' = "Exception"
                    /\ UNCHANGED <<stdin, heartbeat>>
               [] OTHER ->
                    /\ msg_count' = msg_count + 1
                    /\ heartbeat' = IF branch = "result" /\ HasStopReason(line)
                                      THEN Stopped(heartbeat) ELSE heartbeat
                    /\ CASE branch = "update" ->
                              /\ out' = Append(out, ev("update"))
                              /\ UNCHANGED <<stdin, pc, status>>
                         [] branch = "permission"
                               /\ (StdinOpen \/ PermissionReply(line) = <<>>) ->
                              /\ out' = Append(out, ev("permission"))
                              /\ stdin' = stdin \o PermissionReply(line)
                              /\ UNCHANGED <<pc, status>>
                         [] branch = "permission"
                               /\ ~StdinOpen /\ PermissionReply(line) # <<>> ->
                              \* proc.stdin.flush() raises BrokenPipeError, caught in main()
                              /\ out' = out \o <<ev("permission"), ev("exception")>>
                              /\ pc' = "cleanup"
                              /\ status' = "Exception"
                              /\ UNCHANGED stdin
                         [] branch = "request" /\ StdinOpen ->
                              /\ out' = Append(out, ev("incoming-request"))
                              /\ stdin' = stdin \o RequestReply(line)
                              /\ UNCHANGED <<pc, status>>
                         [] branch = "request" /\ ~StdinOpen ->
                              \* proc.stdin.flush() raises BrokenPipeError, caught in main()
                              /\ out' = out \o <<ev("incoming-request"), ev("exception")>>
                              /\ pc' = "cleanup"
                              /\ status' = "Exception"
                              /\ UNCHANGED stdin
                         [] branch = "result" /\ HasStopReason(line) ->
                              /\ out' = Append(out, ev("DONE"))
                              /\ pc' = "cleanup"
                              /\ status' = "Completed"
                              /\ UNCHANGED stdin
                         [] branch = "result" /\ ~HasStopReason(line) ->
                              /\ out' = Append(out, ev("RESULT"))
                              /\ UNCHANGED <<stdin, pc, status>>
                         [] branch = "error" ->
                              /\ out' = Append(out, ev("ERROR"))
                              /\ UNCHANGED <<stdin, pc, status>>
                         [] OTHER ->
                              /\ out' = Append(out, ev("UNKNOWN"))
                              /\ UNCHANGED <<stdin, pc, status>>
    /\ UNCHANGED <<peerVars, reader_started, threads, stream_start, argVars, responses, timeout,
                   session_id, req_id, envVars, procVars, current_model, call_start>>

\* queue.Empty in read_streaming: report the timeout and break
ReadStreamingTimeout ==
    /\ pc = "session/prompt"
    /\ queue = <<>>
    /\ out' = Append(out, TimeoutReport(pc, req_id, msg_count, timeout))
    /\ pc' = "cleanup"
    /\ status' = "TimedOut"
    /\ heartbeat' = Stopped(heartbeat)
    /\ UNCHANGED <<peerVars, queue, reader_started, threads, deq, stream_start, argVars, responses,
                   timeout, session_id, req_id, msg_count, stdin, envVars, procVars,
                   current_model>>
    /\ UNCHANGED clockVars

-----------------------------------------------------------------------------
(* read_streaming of test-gen-acp.py *)

\* update_type == "agent_message_chunk" with a dict content of type "text"
IsTextChunk(parsed) == parsed.tag = "agent_message_chunk" /\ parsed.text # Absent

\* a full_text that keeps the newest chunk first
AppendTextFirst(texts, text) == <<text>> \o texts

\* full_text.append(text)
AppendText(texts, text) == Append(texts, text)

\* "".join(full_text)
RECURSIVE Join(_)
Join(texts) == IF texts = <<>> THEN "" ELSE Head(texts) \o Join(Tail(texts))

\* isinstance(result, dict) and result.get("stopReason"): the member is there
\* and its value is truthy
GenStops(parsed) == parsed.stop \notin {Absent, ""}

\* what the update branch prints: the text of a text chunk, a tool_call line;
\* other tags are passed to debug() only
GenPrintsUpdate(parsed) == IsTextChunk(parsed) \/ parsed.tag = "tool_call"

\* a loop that answers the peer's requests, as the one of test-acp.py does
ReadStreamingGenAnswering == ReadStreamingGet

\* one iteration of the loop of read_streaming of test-gen-acp.py with a line
\* on the queue; with --debug every parsed message is printed as MSG#n first
ReadStreamingGen ==
    /\ pc = "session/prompt"
    /\ queue # <<>>
    /\ LET line == Get(queue)
           ev(name) == Event(name, pc, req_id, line)
           msg == IF debug THEN <<ev("MSG")>> ELSE <<>>
       IN
          /\ queue' = Tail(queue)
          /\ deq' = deq + 1
          /\ get_start' = now
          /\ CASE line.form = "blank" ->
                    UNCHANGED <<msg_count, out, pc, status, full_text>>
               [] line.form = "raw" ->
                    /\ out' = Append(out, ev("RAW"))
                    /\ UNCHANGED <<msg_count, pc, status, full_text>>
               [] line.form = "array" ->
                    \* parsed.get raises AttributeError, caught in main()
                    /\ msg_count' = msg_count + 1
                    /\ out' = out \o msg \o <<ev("exception")>>
                    /\ pc' = "cleanup"
                    /\ status' = "Exception"
                    /\ UNCHANGED full_text
               [] OTHER ->
                    /\ msg_count' = msg_count + 1
                    /\ CASE line.method = "session/update" ->
                              /\ full_text' = IF IsTextChunk(line)
                                                THEN AppendText(full_text, line.text)
                                                ELSE full_text
                              /\ out' = out \o msg \o
                                          (IF GenPrintsUpdate(line)
                                             THEN <<ev("update")>> ELSE <<>>)
                              /\ UNCHANGED <<pc, status>>
                         [] line.method # "session/update" /\ line.body = "result"
                               /\ GenStops(line) ->
                              /\ out' = out \o msg \o <<ev("DONE")>>
                              /\ pc' = "cleanup"
                              /\ status' = "Completed"
                              /\ UNCHANGED full_text
                         [] line.method # "session/update" /\ line.body = "error" ->
                              /\ out' = out \o msg \o <<ev("ERROR")>>
                              /\ UNCHANGED <<pc, status, full_text>>
                         [] OTHER ->
                              /\ out' = out \o msg
                              /\ UNCHANGED <<pc, status, full_text>>
    /\ UNCHANGED <<peerVars, reader_started, threads, stream_start, argVars, responses, timeout,
                   session_id, req_id, stdin, script, signalled, beats, err_emitted,
                   err_read, debug, now, call_start, procVars, current_model, heartbeat>>

\* queue.Empty in read_streaming of test-gen-acp.py: report the timeout, the
\* message count and the elapsed time, and break
ReadStreamingGenTimeout ==
    /\ pc = "session/prompt"
    /\ queue = <<>>
    /\ out' = Append(out, TimeoutReport(pc, req_id, msg_count, timeout))
    /\ pc' = "cleanup"
    /\ status' = "TimedOut"
    /\ UNCHANGED <<peerVars, queue, reader_started, threads, deq, stream_start, argVars, responses,
                   timeout, session_id, req_id, msg_count, stdin, envVars, procVars,
                   current_model, heartbeat>>
    /\ UNCHANGED clockVars

-----------------------------------------------------------------------------
(* The finally block of main() and the child process *)

\* proc.terminate(): SIGTERM to a child that has not exited
Terminated(c) == IF c = "running" THEN "terminating" ELSE c

\* a finally block that first takes what is left on the queue, line by line
TerminateDraining ==
    /\ pc = "cleanup"
    /\ IF queue # <<>>
         THEN /\ queue' = Tail(queue)
              /\ deq' = deq + 1
              /\ UNCHANGED <<peerVars, reader_started, threads, stream_start, argVars,
                             responses, timeout, session_id, req_id, msg_count, stdin, out,
                             status, current_model, heartbeat, pc, procVars>>
         ELSE /\ calls' = Append(calls, "terminate")
              /\ child' = Terminated(child)
              /\ pc' = "wait"
              /\ UNCHANGED mainVars
    /\ UNCHANGED envVars
    /\ UNCHANGED clockVars

\* the finally block up to proc.wait(timeout=5)
Terminate ==
    /\ pc = "cleanup"
    /\ calls' = Append(calls, "terminate")
    /\ child' = Terminated(child)
    /\ pc' = "wait"
    /\ UNCHANGED <<mainVars, envVars>>
    /\ UNCHANGED clockVars

\* a finally block that kills the child although it ended within the 5 s
WaitReturnsKilling ==
    /\ pc = "wait"
    /\ child \in {"terminating", "exited"}
    /\ calls' = calls \o <<"wait", "kill", "wait">>
    /\ child' = "exited"
    /\ pc' = "done"
    /\ UNCHANGED <<mainVars, envVars>>
    /\ UNCHANGED clockVars

\* proc.wait(timeout=5) returns: the child has ended on the SIGTERM within 5 s
WaitReturns ==
    /\ pc = "wait"
    /\ child \in {"terminating", "exited"}
    /\ calls' = Append(calls, "wait")
    /\ child' = "exited"
    /\ pc' = "done"
    /\ UNCHANGED <<mainVars, envVars>>
    /\ UNCHANGED clockVars

\* proc.wait(timeout=5) raises TimeoutExpired, the child has not ended:
\* proc.kill(), proc.wait()
WaitExpires ==
    /\ pc = "wait"
    /\ child = "terminating"
    /\ calls' = calls \o <<"wait", "kill", "wait">>
    /\ child' = "killed"
    /\ pc' = "done"
    /\ UNCHANGED <<mainVars, envVars>>
    /\ UNCHANGED clockVars

-----------------------------------------------------------------------------
(* SIGINT and SIGTERM *)

Signals == {"SIGINT", "SIGTERM"}

\* main() is inside its try block
InTry == pc \notin {"cleanup", "wait", "done"}

\* One signal is delivered to the script while main() runs.
\* scripts/test-acp.py installs _signal_handler for both signals: it calls
\* _proc.terminate() if the child has not exited, then sys.exit(1); the
\* SystemExit is raised in the main thread, passes `except Exception`, and
\* runs the finally block if main() is in the try block, or leaves the finally
\* block if main() is already in it.
\* skills/acp/test-acp.py installs no handler: SIGINT raises KeyboardInterrupt
\* in the main thread, with the same two cases, and SIGTERM ends the process.
Signal ==
    /\ ~signalled
    /\ pc # "done"
    /\ signalled' = TRUE
    /\ \E sig \in Signals :
          IF script = Scripts
            THEN /\ calls' = IF child \in {"running", "terminating"}
                               THEN Append(calls, "terminate") ELSE calls
                 /\ child' = Terminated(child)
                 /\ status' = "Signalled"
                 /\ pc' = IF InTry THEN "cleanup" ELSE "done"
            ELSE IF sig = "SIGINT"
            THEN /\ status' = "Signalled"
                 /\ pc' = IF InTry THEN "cleanup" ELSE "done"
                 /\ UNCHANGED <<child, calls>>
            ELSE /\ status' = "Killed"
                 /\ pc' = "done"
                 /\ UNCHANGED <<child, calls>>
    /\ UNCHANGED <<peerVars, queue, reader_started, threads, deq, stream_start, argVars, responses,
                   timeout, session_id, req_id, msg_count, stdin, out, current_model,
                   heartbeat, script, beats, err_emitted, err_read, genVars, now>>
    /\ UNCHANGED clockVars

\* The child exits by itself while main() is in its try block.  Its stdout
\* reaches end of file once the lines it wrote have been read; readline()
\* then returns '' and _stdout_reader breaks out of its loop, putting nothing
\* on the queue.
ChildExits ==
    /\ child = "running"
    /\ InTry
    /\ child' = "exited"
    /\ UNCHANGED <<mainVars, pc, envVars, calls>>
    /\ UNCHANGED clockVars

-----------------------------------------------------------------------------
(* Time.  The other specifications leave the clock at 0 and let a wait end  *)
(* whenever the queue is empty; SpecTimed lets the clock advance while      *)
(* main() is blocked in _response_queue.get(timeout=timeout) and ends a     *)
(* wait only when that get has waited for its timeout.  A line that the     *)
(* peer writes in the second in which the get would expire is taken: it     *)
(* stands for a line arriving just before the expiry.                       *)

\* the pending get has waited for its timeout: queue.Empty is raised
Expired == now - get_start >= timeout

\* one second passes while main() is blocked in the get of read_responses
Tick ==
    /\ pc \in ConfigSteps
    /\ queue = <<>>
    /\ pipe = <<>>
    /\ ~Expired
    /\ now < MaxTime
    /\ now' = now + 1
    /\ UNCHANGED <<mainVars, pc, procVars, script, signalled, beats, err_emitted,
                   err_read, genVars, clockVars>>

\* queue.Empty in read_responses of steps 1 to 4, raised when the get expires
InitializeExpires == Expired /\ InitializeReturn
SessionNewExpires == Expired /\ SessionNewReturn
SetModelExpires == Expired /\ SetModelReturn
SetModeExpires == Expired /\ SetModeReturn

-----------------------------------------------------------------------------
(* Specifications *)

\* main() has spawned the child and is about to send initialize; lines is the
\* number of lines the peer may write
StartWith(lines) ==
    /\ pipe = <<>>
    /\ queue = <<>>
    /\ reader_started = FALSE
    /\ threads = <<>>
    /\ emitted = <<>>
    /\ budget = lines
    /\ deq = 0
    /\ stream_start = 0
    /\ pc = "start"
    /\ use_model \in BOOLEAN
    /\ use_mode \in BOOLEAN
    /\ responses = <<>>
    /\ timeout = ResponseTimeout
    /\ session_id = Absent
    /\ req_id = 0
    /\ msg_count = 0
    /\ stdin = <<>>
    /\ out = <<>>
    /\ status = "running"
    /\ current_model = Absent
    /\ child = "running"
    /\ calls = <<>>
    /\ signalled = FALSE
    /\ heartbeat = "none"
    /\ beats = 0
    /\ err_emitted = <<>>
    /\ err_read = 0
    /\ now = 0
    /\ call_start = 0
    /\ get_start = 0
    /\ full_text = <<>>
    /\ debug = FALSE

Start == StartWith(MaxEmit)

\* a run of scripts/test-acp.py, and a run of either script
Init == Start /\ script = Scripts
InitEither == Start /\ script \in {Scripts, Skills}

Next ==
    \/ PeerEmit
    \/ StdoutReader
    \/ SendInitialize
    \/ ReadResponsesGet
    \/ InitializeReturn
    \/ SessionNewReturn
    \/ SetModelReturn
    \/ SetModeReturn
    \/ ReadStreamingGet
    \/ ReadStreamingTimeout

Spec == Init /\ [][Next]_vars

\* main() through its finally block
NextCleanup ==
    \/ Next
    \/ Terminate
    \/ WaitReturns
    \/ WaitExpires

SpecCleanup == Init /\ [][NextCleanup]_vars

\* skills/acp/test-acp.py run with --mode and without --model is awaiting the
\* response to session/set_mode: the peer answered initialize and session/new,
\* one response each, and nothing else has arrived
InitThreads ==
    /\ pipe = <<>>
    /\ queue = <<>>
    /\ reader_started = TRUE
    /\ threads = ReaderThreads
    /\ emitted = <<Result(InitializeId, Absent, Absent),
                   SessionResult(SessionNewId, "S1", "m0")>>
    /\ budget = MaxThreadEmit
    /\ deq = 2
    /\ stream_start = 0
    /\ pc = "session/set_mode"
    /\ use_model = FALSE
    /\ use_mode = TRUE
    /\ responses = <<>>
    /\ timeout = ResponseTimeout
    /\ session_id = "S1"
    /\ req_id = FirstReqId
    /\ msg_count = 0
    /\ stdin = <<Request("initialize", InitializeId, Absent),
                 Request("session/new", SessionNewId, Absent),
                 Request("session/set_mode", FirstReqId, "S1")>>
    /\ out = <<Event("init", "initialize", InitializeId, Result(InitializeId, Absent, Absent)),
               Event("session", "session/new", SessionNewId,
                     SessionResult(SessionNewId, "S1", "m0"))>>
    /\ status = "running"
    /\ script = Skills
    /\ current_model = "m0"
    /\ child = "running"
    /\ calls = <<>>
    /\ signalled = FALSE
    /\ heartbeat = "none"
    /\ beats = 0
    /\ err_emitted = <<>>
    /\ err_read = 0
    /\ now = 0
    /\ call_start = 0
    /\ get_start = 0
    /\ full_text = <<>>
    /\ debug = FALSE

\* the four threads of skills/acp/test-acp.py from there on: the main thread,
\* the two reader threads and, once the prompt is sent, the heartbeat thread
NextThreads ==
    \/ PeerEmit
    \/ StderrEmit
    \/ StdoutReader
    \/ StderrReader
    \/ Heartbeat
    \/ ReadResponsesGet
    \/ SetModeReturn
    \/ ReadStreamingGet
    \/ ReadStreamingTimeout

SpecThreads == InitThreads /\ [][NextThreads]_vars

\* either script, with a signal delivered at any time
NextSignal ==
    \/ NextCleanup
    \/ Signal

SpecSignal == InitEither /\ [][NextSignal]_vars

\* main() without --model and --mode has entered read_streaming: the peer answered
\* initialize and session/new, one response each, and nothing else has arrived
StreamingWith(lines) ==
    /\ pipe = <<>>
    /\ queue = <<>>
    /\ reader_started = TRUE
    /\ threads = ReaderThreads
    /\ emitted = <<Result(InitializeId, Absent, Absent),
                   SessionResult(SessionNewId, "S1", "m0")>>
    /\ budget = lines
    /\ deq = 2
    /\ stream_start = 2
    /\ pc = "session/prompt"
    /\ use_model = FALSE
    /\ use_mode = FALSE
    /\ responses = <<>>
    /\ timeout = StreamingTimeout
    /\ session_id = "S1"
    /\ req_id = FirstReqId
    /\ msg_count = 0
    /\ stdin = <<Request("initialize", InitializeId, Absent),
                 Request("session/new", SessionNewId, Absent),
                 Request("session/prompt", FirstReqId, "S1")>>
    /\ out = <<Event("init", "initialize", InitializeId, Result(InitializeId, Absent, Absent)),
               Event("session", "session/new", SessionNewId,
                     SessionResult(SessionNewId, "S1", "m0"))>>
    /\ status = "running"
    /\ script = Scripts
    /\ current_model = "m0"
    /\ child = "running"
    /\ calls = <<>>
    /\ signalled = FALSE
    /\ heartbeat = "none"
    /\ beats = 0
    /\ err_emitted = <<>>
    /\ err_read = 0
    /\ now = 0
    /\ call_start = 0
    /\ get_start = 0
    /\ full_text = <<>>
    /\ debug = FALSE

InitStreaming == StreamingWith(MaxStreamEmit)

NextStreaming ==
    \/ PeerEmit
    \/ StdoutReader
    \/ ReadStreamingGet
    \/ ReadStreamingTimeout

SpecStreaming == InitStreaming /\ [][NextStreaming]_vars

\* main() of scripts/test-acp.py up to the prompt, with time
NextTimed ==
    \/ PeerEmit
    \/ StdoutReader
    \/ Tick
    \/ ReadResponsesGet
    \/ SendInitialize
    \/ InitializeExpires
    \/ SessionNewExpires
    \/ SetModelExpires
    \/ SetModeExpires

InitTimed == StartWith(MaxTimedEmit) /\ script = Scripts

SpecTimed == InitTimed /\ [][NextTimed]_vars

\* the prompt turn of scripts/test-acp.py through the finally block
NextTurn ==
    \/ NextStreaming
    \/ Terminate
    \/ WaitReturns
    \/ WaitExpires

InitTurn == StreamingWith(MaxTurnEmit)

SpecTurn == InitTurn /\ [][NextTurn]_vars

\* the prompt turn with a child that may exit by itself at any time
NextExit ==
    \/ NextStreaming
    \/ ChildExits

SpecExit == InitStreaming /\ [][NextExit]_vars

\* main() of test-gen-acp.py has entered read_streaming: it always sends
\* session/set_model and session/set_mode, and the peer answered each of the
\* four requests with one response and nothing else has arrived
InitGen ==
    /\ pipe = <<>>
    /\ queue = <<>>
    /\ reader_started = TRUE
    /\ threads = ReaderThreads
    /\ emitted = <<Result(InitializeId, Absent, Absent),
                   SessionResult(SessionNewId, "S1", "m0"),
                   Result(FirstReqId, Absent, Absent),
                   Result(FirstReqId + 1, Absent, Absent)>>
    /\ budget = MaxGenEmit
    /\ deq = 4
    /\ stream_start = 4
    /\ pc = "session/prompt"
    /\ use_model = TRUE
    /\ use_mode = TRUE
    /\ responses = <<>>
    /\ timeout = GenTimeout
    /\ session_id = "S1"
    /\ req_id = FirstReqId + 2
    /\ msg_count = 0
    /\ stdin = <<Request("initialize", InitializeId, Absent),
                 Request("session/new", SessionNewId, Absent),
                 Request("session/set_model", FirstReqId, "S1"),
                 Request("session/set_mode", FirstReqId + 1, "S1"),
                 Request("session/prompt", FirstReqId + 2, "S1")>>
    /\ out = <<Event("init", "initialize", InitializeId, Result(InitializeId, Absent, Absent)),
               Event("session", "session/new", SessionNewId,
                     SessionResult(SessionNewId, "S1", "m0")),
               Event("step-result", "session/set_model", FirstReqId,
                     Result(FirstReqId, Absent, Absent)),
               Event("step-result", "session/set_mode", FirstReqId + 1,
                     Result(FirstReqId + 1, Absent, Absent))>>
    /\ status = "running"
    /\ script = TestGen
    /\ current_model = "m0"
    /\ child = "running"
    /\ calls = <<>>
    /\ signalled = FALSE
    /\ heartbeat = "none"
    /\ beats = 0
    /\ err_emitted = <<>>
    /\ err_read = 0
    /\ now = 0
    /\ call_start = 0
    /\ get_start = 0
    /\ full_text = <<>>
    /\ debug \in BOOLEAN

NextGen ==
    \/ PeerEmit
    \/ StdoutReader
    \/ ReadStreamingGen
    \/ ReadStreamingGenTimeout

SpecGen == InitGen /\ [][NextGen]_vars


-----------------------------------------------------------------------------
(* Vocabulary of the properties.  These classify lines by their members     *)
(* alone, independently of the dispatch code above.                        *)

IsObject(line) == line.form = "object"
IsUpdate(line) == IsObject(line) /\ line.method = "session/update"
IsPermission(line) == IsObject(line) /\ line.method = "session/request_permission"
\* a frame with method and id
IsPeerRequest(line) == IsObject(line) /\ line.method # Absent /\ line.id # NoId
IsOtherRequest(line) == IsPeerRequest(line) /\ ~IsUpdate(line) /\ ~IsPermission(line)
\* a frame with id, no method, and a result or an error
IsResponse(line) ==
    IsObject(line) /\ line.method = Absent /\ line.id # NoId
       /\ line.body \in {"result", "error"}
IsTerminal(line) == IsResponse(line) /\ line.body = "result" /\ line.stop # Absent

AllowIndices(options) == {i \in DOMAIN options : options[i].kind \in AllowKinds}
OptionIds(options) == {options[i].optionId : i \in DOMAIN options}

\* read_streaming has been entered
Streaming == PromptSent
\* the lines read_streaming has taken from the queue so far, as the peer wrote them
Streamed == SubSeq(emitted, stream_start + 1, deq)
\* read_streaming has taken a line, and Last is that line as the peer wrote it
Taken == Streaming /\ deq > stream_start
Last == emitted[deq]

\* the lines of the events named ev that read_streaming reported, in order
Reported(ev) ==
    LET es == SelectSeq(out, LAMBDA e : e.step = "session/prompt" /\ e.ev = ev)
    IN  [i \in 1..Len(es) |-> es[i].line]

\* the replies (result or error frames) written to stdin, in order
Replies == SelectSeq(stdin, LAMBDA f : f.type # "request")

\* main() has left its try block: it is in the finally block or has exited
Left == pc \in {"cleanup", "wait", "done"}

\* events by which main() takes a frame as the outcome of the request it awaits
ActedEvents == {"init", "session", "step-result", "step-error", "DONE"}
Acted(e) == e.ev \in ActedEvents /\ IsResponse(e.line)

-----------------------------------------------------------------------------
(* C1: in read_streaming the session/update notifications the peer wrote    *)
(* are dispatched in exactly the order written, each exactly once, none     *)
(* skipped; and when completion is reported it is the last thing reported,  *)
(* for the terminal response, after every notification written before it.   *)
C1_UpdatesInOrder ==
    Streaming =>
       /\ Reported("update") = SelectSeq(Streamed, IsUpdate)
       /\ status = "Completed" =>
             /\ out[Len(out)].ev = "DONE"
             /\ out[Len(out)].line = Last
             /\ IsTerminal(Last)
             /\ Reported("update") = SelectSeq(SubSeq(emitted, stream_start + 1, deq - 1), IsUpdate)

\* two different notifications, then the terminal response
C1_Witness ==
    /\ status = "Completed"
    /\ Len(Reported("update")) >= 2
    /\ Reported("update")[1] # Reported("update")[2]

(* C2: when read_streaming takes a session/request_permission request with  *)
(* an id and at least one allow_once/allow_always option, that step writes  *)
(* a result response with outcome "selected", the request's id and an       *)
(* optionId of one of its options, and the prompt wait stays pending; and   *)
(* once such a reply was written, taking a response with stopReason         *)
(* completes the turn.                                                      *)
C2_PermissionAnswered ==
    [][(pc = "session/prompt" /\ queue # <<>> /\ deq' = deq + 1) =>
         LET line == Head(queue) IN
         /\ (IsPermission(line) /\ line.id # NoId /\ AllowIndices(line.options) # {}) =>
               /\ Len(stdin') = Len(stdin) + 1
               /\ SubSeq(stdin', 1, Len(stdin)) = stdin
               /\ stdin'[Len(stdin')].type = "result"
               /\ stdin'[Len(stdin')].outcome = "selected"
               /\ stdin'[Len(stdin')].id = line.id
               /\ stdin'[Len(stdin')].optionId \in OptionIds(line.options)
               /\ pc' = "session/prompt"
               /\ status' = "running"
         /\ (IsTerminal(line) /\ \E i \in DOMAIN stdin : stdin[i].outcome = "selected") =>
               status' = "Completed"
      ]_vars

\* a permission request was answered and the turn completed afterwards
C2_Witness ==
    /\ status = "Completed"
    /\ \E i \in DOMAIN stdin : stdin[i].outcome = "selected" /\ stdin[i].id = 7

(* C3: the turn is Completed only by a response whose id is the id of the   *)
(* session/prompt request and whose result contains stopReason.             *)
C3_CompletedOnlyByPromptResponse ==
    status = "Completed" => (IsTerminal(Last) /\ Last.id = req_id)

(* C4: once read_streaming has taken a response (result or error) carrying  *)
(* the id of the session/prompt request, it is no longer waiting.           *)
C4_PromptResponseEndsWait ==
    (Taken /\ IsResponse(Last) /\ Last.id = req_id) => pc # "session/prompt"

(* C5: for every id, at most one response frame carrying it is acted on as  *)
(* a request's outcome; a second one is rejected.                           *)
C5_AtMostOneResolution ==
    \A i, j \in DOMAIN out :
       (i < j /\ Acted(out[i]) /\ Acted(out[j])) => out[i].line.id # out[j].line.id

(* C6: a response to session/set_model is never reported as the outcome of  *)
(* the following session/set_mode call or of session/prompt.                *)
C6_LateSetModelDiscarded ==
    \A k \in DOMAIN out :
       (use_model /\ Acted(out[k]) /\ out[k].step \in {"session/set_mode", "session/prompt"})
          => out[k].line.id # FirstReqId

C8_EveryPermissionAnswered ==
    Left =>
       \A k \in (stream_start + 1)..deq :
          (Streaming /\ IsPermission(emitted[k]) /\ emitted[k].id # NoId)
             => \E i \in DOMAIN Replies : Replies[i].id = emitted[k].id

(* C9: when read_streaming takes a frame with method and id whose method is *)
(* neither session/update nor session/request_permission, that step writes  *)
(* an error response with code -32601 and the same id, and leaves the       *)
(* prompt wait as it was.                                                   *)
C9_OtherRequestRefused ==
    [][(pc = "session/prompt" /\ queue # <<>> /\ deq' = deq + 1 /\ IsOtherRequest(Head(queue))) =>
         /\ Len(stdin') = Len(stdin) + 1
         /\ SubSeq(stdin', 1, Len(stdin)) = stdin
         /\ stdin'[Len(stdin')].type = "error"
         /\ stdin'[Len(stdin')].code = -32601
         /\ stdin'[Len(stdin')].id = Head(queue).id
         /\ pc' = "session/prompt"
         /\ status' = status
         /\ session_id' = session_id
         /\ req_id' = req_id
      ]_vars

\* a request was refused and the turn completed afterwards
C9_Witness ==
    /\ status = "Completed"
    /\ \E i \in DOMAIN stdin : stdin[i].type = "error" /\ stdin[i].id = 8

(* C10: when main() has left its try block, every peer-initiated request    *)
(* (method and id) that read_responses took has had a response written to   *)
(* stdin.                                                                   *)
C10_RequestsAnsweredBeforePrompt ==
    Left =>
       \A k \in 1..(IF Streaming THEN stream_start ELSE deq) :
          IsPeerRequest(emitted[k])
             => \E i \in DOMAIN Replies : Replies[i].id = emitted[k].id

(* C11: read_streaming classifies a frame by which of method and id it has: *)
(* taking a frame with both method and id, whatever the method (a           *)
(* session/update frame with an id included), reports it as a peer request  *)
(* and writes one reply carrying its id; taking a frame with an id and no   *)
(* method writes nothing.  (session/request_permission frames, whose reply  *)
(* C2 and C8 are about, are left aside here.)                               *)
C11_ClassifiedByMethodAndId ==
    [][(pc = "session/prompt" /\ queue # <<>> /\ deq' = deq + 1) =>
         LET line == Head(queue) IN
         /\ (IsPeerRequest(line) /\ ~IsPermission(line)) =>
               /\ Len(stdin') = Len(stdin) + 1
               /\ SubSeq(stdin', 1, Len(stdin)) = stdin
               /\ stdin'[Len(stdin')].type # "request"
               /\ stdin'[Len(stdin')].id = line.id
               /\ out'[Len(out')].ev = "incoming-request"
         /\ (IsObject(line) /\ line.method = Absent /\ line.id # NoId) =>
               stdin' = stdin
      ]_vars

(* C12: read_streaming leaves its wait without having taken a line only     *)
(* when the queue is empty at the timeout, and it then returns normally:    *)
(* the run stands as TimedOut (not as an exception), nothing is written to  *)
(* the peer, and the last thing reported is the timeout, with the number of *)
(* messages parsed since the prompt was sent and the seconds waited.        *)
C12_TimeoutReturnsNormally ==
    [][(pc = "session/prompt" /\ pc' # pc /\ deq' = deq) =>
         /\ queue = <<>>
         /\ pc' = "cleanup"
         /\ status' = "TimedOut"
         /\ stdin' = stdin
         /\ Len(out') = Len(out) + 1
         /\ SubSeq(out', 1, Len(out)) = out
         /\ out'[Len(out')].ev = "timeout"
         /\ out'[Len(out')].n = Len(SelectSeq(Streamed, Parses))
         /\ out'[Len(out')].secs = StreamingTimeout
      ]_vars

\* the peer sent two notifications and a line that is not JSON, no response,
\* and the wait timed out
C12_Witness ==
    /\ status = "TimedOut"
    /\ Len(Streamed) = 3
    /\ \A i \in DOMAIN Streamed : ~IsResponse(Streamed[i])
    /\ out[Len(out)].ev = "timeout"
    /\ out[Len(out)].n = 2

(* C13: taking a line that is not valid JSON, in read_responses or in       *)
(* read_streaming, reports the line as raw and changes nothing else the     *)
(* handling of later lines depends on: the position of main(), the status   *)
(* of the run, the frames written to the peer, the responses collected, the *)
(* timeout of the next wait, the message count and the session and request  *)
(* ids are what they were, so every later frame is handled as it would have *)
(* been without the line.                                                   *)
C13_MalformedLineIsInert ==
    [][(pc \in ConfigSteps \cup {"session/prompt"} /\ queue # <<>> /\ deq' = deq + 1
          /\ Head(queue).form = "raw") =>
         /\ Len(out') = Len(out) + 1
         /\ SubSeq(out', 1, Len(out)) = out
         /\ out'[Len(out')].ev = "RAW"
         /\ out'[Len(out')].line = Head(queue)
         /\ pc' = pc
         /\ status' = status
         /\ stdin' = stdin
         /\ responses' = responses
         /\ timeout' = timeout
         /\ msg_count' = msg_count
         /\ session_id' = session_id
         /\ req_id' = req_id
      ]_vars

\* a line that parses as JSON and is none of a peer request, a notification
\* or a response: a JSON value that is not an object, or an object without
\* method that has no id or neither result nor error
IsNotification(line) == IsObject(line) /\ line.method # Absent /\ line.id = NoId
IsUnclassifiable(line) ==
    Parses(line) /\ ~IsPeerRequest(line) /\ ~IsNotification(line) /\ ~IsResponse(line)

(* C14: a line that parses as JSON and fits none of the classes never       *)
(* aborts the run: no exception is reported for such a line, in             *)
(* read_streaming or in a configuration step.                               *)
C14_UnclassifiableNeverAborts ==
    \A i \in DOMAIN out : out[i].ev = "exception" => ~IsUnclassifiable(out[i].line)

(* C15: when read_responses returns from the wait that follows initialize   *)
(* without having collected a response (result or error) with the id of the *)
(* initialize request, the run fails at that step: main() goes to cleanup   *)
(* with nothing written, and nothing is written afterwards.  A notification *)
(* or a peer request collected in that wait does not stand for the          *)
(* response.                                                                *)
C15_InitializeNeedsItsResponse ==
    [][/\ (pc = "initialize" /\ pc' # pc
              /\ ~\E i \in DOMAIN responses :
                     IsResponse(responses[i]) /\ responses[i].id = InitializeId) =>
             /\ pc' = "cleanup"
             /\ status' \in {"Error", "Exception"}
             /\ stdin' = stdin
       /\ (status \in {"Error", "Exception"}) => stdin' = stdin
      ]_vars

(* C16: when read_responses returns from the wait that follows session/new  *)
(* and no frame it collected has a result with a non-empty sessionId, the   *)
(* run ends as an error: main() goes to its finally block with nothing      *)
(* written, from then on nothing is written to the peer (no second          *)
(* session/new, no session/set_model, session/set_mode or session/prompt)   *)
(* and main() only moves on through the finally block, and when it has      *)
(* exited the child was terminated and waited for, and killed and waited    *)
(* for again if it had not ended.                                           *)
C16_NoSessionIdEndsRun ==
    [][/\ (pc = "session/new" /\ pc' # pc
              /\ ~\E i \in DOMAIN responses :
                     /\ IsObject(responses[i]) /\ responses[i].body = "result"
                     /\ responses[i].sid \notin {Absent, ""}) =>
             /\ pc' = "cleanup"
             /\ status' = "Error"
             /\ stdin' = stdin
       /\ (status = "Error") =>
             /\ stdin' = stdin
             /\ status' = "Error"
             /\ <<pc, pc'>> \in {<<"cleanup", "cleanup">>, <<"cleanup", "wait">>,
                                 <<"wait", "wait">>, <<"wait", "done">>, <<"done", "done">>}
       /\ (status' = "Error" /\ pc' = "done") =>
             \/ calls' = <<"terminate", "wait">> /\ child' = "exited"
             \/ calls' = <<"terminate", "wait", "kill", "wait">> /\ child' = "killed"
      ]_vars

\* session/new was answered with a result whose sessionId is the empty
\* string, and main() has exited after the cleanup
C16_Witness ==
    /\ pc = "done"
    /\ status = "Error"
    /\ out[Len(out)].ev = "no-session"
    /\ \E i \in DOMAIN responses : responses[i].body = "result" /\ responses[i].sid = ""
    /\ \A i \in DOMAIN stdin : stdin[i].method \in {"initialize", "session/new"}
    /\ calls = <<"terminate", "wait", "kill", "wait">>

(* C17: whatever read_responses collected while awaiting session/set_model  *)
(* or session/set_mode (an error response, other frames, or nothing at      *)
(* all), main() goes on: the run stays as it was, the session id is kept,   *)
(* and the next step's request is written with that session id and the      *)
(* next request id: session/set_mode after session/set_model when --mode is *)
(* given, session/prompt otherwise.                                         *)
C17_ConfigFailureDoesNotAbort ==
    [][(pc \in {"session/set_model", "session/set_mode"} /\ pc' # pc) =>
         /\ status' = "running"
         /\ session_id' = session_id
         /\ pc' = IF pc = "session/set_model" /\ use_mode
                    THEN "session/set_mode" ELSE "session/prompt"
         /\ Len(stdin') = Len(stdin) + 1
         /\ SubSeq(stdin', 1, Len(stdin)) = stdin
         /\ stdin'[Len(stdin')].type = "request"
         /\ stdin'[Len(stdin')].method = pc'
         /\ stdin'[Len(stdin')].sessionId = session_id
         /\ stdin'[Len(stdin')].id = req_id + 1
      ]_vars

\* session/set_model was answered with an error, session/set_mode was not
\* answered at all, and session/prompt has been written with the session id
C17_Witness ==
    /\ pc = "session/prompt"
    /\ \E i \in DOMAIN out :
          /\ out[i].ev = "step-error" /\ out[i].step = "session/set_model"
          /\ out[i].line.id = FirstReqId
    /\ ~\E i \in DOMAIN out : out[i].step = "session/set_mode"
    /\ stdin[Len(stdin)].method = "session/prompt"
    /\ stdin[Len(stdin)].sessionId = "S1"
    /\ \E i \in DOMAIN stdin : stdin[i].method = "session/set_mode"

(* C18: when main() returns from the wait that follows session/set_model    *)
(* and the request was answered with an error response (a response with its *)
(* id and an error, and no response with a result), the error is reported   *)
(* as an error of that step, and the current model id main() has reported   *)
(* is still the one the result of session/new named.                        *)
C18_FailedSetModelKeepsModel ==
    [][(pc = "session/set_model" /\ pc' # pc
          /\ (\E i \in DOMAIN responses :
                 IsResponse(responses[i]) /\ responses[i].body = "error"
                    /\ responses[i].id = req_id)
          /\ (\A i \in DOMAIN responses : responses[i].body # "result")) =>
         /\ SubSeq(out', 1, Len(out)) = out
         /\ \E j \in (Len(out) + 1)..Len(out') :
               /\ out'[j].ev = "step-error"
               /\ out'[j].step = "session/set_model"
               /\ IsResponse(out'[j].line) /\ out'[j].line.id = req_id
         /\ current_model' = current_model
         /\ \E i \in DOMAIN out :
               out[i].ev = "session" /\ current_model' = out[i].line.model
      ]_vars

\* session/new named the model m0, session/set_model was answered with an
\* error, and main() has gone on holding m0
C18_Witness ==
    /\ pc \in {"session/set_mode", "session/prompt"}
    /\ \E i \in DOMAIN out :
          /\ out[i].ev = "step-error" /\ out[i].step = "session/set_model"
          /\ out[i].line.id = FirstReqId
    /\ current_model = "m0"

(* C19: whenever main() has exited, on whatever path (completion, early     *)
(* return, exception, timeout, SIGINT or SIGTERM), the cleanup sequence was *)
(* executed: the child was sent terminate and then waited for, and killed   *)
(* and waited for again if it had not ended, so that no child is left.      *)
C19_CleanupOnEveryExit ==
    pc = "done" =>
       LET n == Len(calls) IN
       /\ child \in {"exited", "killed"}
       /\ n >= 2
       /\ \/ SubSeq(calls, n - 1, n) = <<"terminate", "wait">>
          \/ n >= 4 /\ SubSeq(calls, n - 3, n) = <<"terminate", "wait", "kill", "wait">>

\* the step is one of the main thread: main() moves, or takes a line from the queue
MainStep == pc' # pc \/ deq' # deq
\* the step is one of the stdout reader, the stderr reader or the heartbeat
\* thread (or of the child writing to its stdout or stderr)
OtherThreadStep ==
    pipe' # pipe \/ err_emitted' # err_emitted \/ err_read' # err_read \/ beats' # beats

(* C20: stdin has a single writer, whose writes follow one another: under   *)
(* every interleaving of the main thread, the two reader threads and the    *)
(* heartbeat thread, a step that writes to stdin is a step of the main      *)
(* thread and appends exactly one whole frame (a request of send_jsonrpc or *)
(* a reply of read_streaming) after the frames written before it, and no    *)
(* step of another thread changes stdin; so no frame is begun while another *)
(* is being written, and a request and a reply are never interleaved.       *)
C20_SingleWriter ==
    [][/\ (stdin' # stdin) =>
             /\ MainStep
             /\ ~OtherThreadStep
             /\ Len(stdin') = Len(stdin) + 1
             /\ SubSeq(stdin', 1, Len(stdin)) = stdin
             /\ \/ /\ stdin'[Len(stdin')].type = "request"
                   /\ stdin'[Len(stdin')].method = pc'
                   /\ pc' # pc
                \/ /\ stdin'[Len(stdin')].type \in {"result", "error"}
                   /\ pc = "session/prompt"
                   /\ deq' = deq + 1
                   /\ stdin'[Len(stdin')].id = Head(queue).id
       /\ OtherThreadStep => stdin' = stdin
      ]_vars

\* the prompt request was written by send_jsonrpc and a reply by
\* read_streaming after it, and the stderr reader and the heartbeat thread
\* have run
C20_Witness ==
    /\ \E i \in DOMAIN stdin :
          /\ stdin[i].type = "request" /\ stdin[i].method = "session/prompt"
          /\ i < Len(stdin)
          /\ stdin[Len(stdin)].type \in {"result", "error"}
    /\ beats >= 1
    /\ err_read >= 1

-----------------------------------------------------------------------------
\* the texts of the agent_message_chunk updates with text content among lines,
\* concatenated in the order of lines
RECURSIVE ChunkText(_)
ChunkText(lines) ==
    IF lines = <<>> THEN ""
    ELSE LET l == Head(lines)
         IN  (IF IsUpdate(l) /\ l.tag = "agent_message_chunk" /\ l.text # Absent
                THEN l.text ELSE "") \o ChunkText(Tail(lines))

(* C21: in test-gen-acp.py the text read_streaming returns ("".join of      *)
(* full_text) is, at every moment, the concatenation in arrival order of    *)
(* the text of every agent_message_chunk update with text content that      *)
(* read_streaming has taken from the queue; when the peer streams "Hello",  *)
(* "!" and a response with stopReason "completed", the text is "Hello!"     *)
(* and the turn is completed.                                               *)
C21_TextIsConcatenation ==
    script = TestGen =>
       /\ Join(full_text) = ChunkText(Streamed)
       /\ Streamed = <<Update("agent_message_chunk", "Hello"),
                       Update("agent_message_chunk", "!"),
                       Result(req_id, "completed", Absent)>>
            => (Join(full_text) = "Hello!" /\ status = "Completed" /\ Left)

\* the peer streamed "Hello", "!" and the completing response, all taken
C21_Witness ==
    /\ script = TestGen
    /\ status = "Completed"
    /\ Len(Streamed) = 3
    /\ Join(full_text) = "Hello!"

(* C22: whenever read_streaming has taken a response whose result has a     *)
(* stopReason member, whatever its value (the empty string included), the   *)
(* turn is completed and the stop reason reported is the value received.    *)
C22_StopReasonOpaque ==
    (Taken /\ IsResponse(Last) /\ Last.body = "result" /\ Last.stop # Absent) =>
        /\ Left
        /\ status = "Completed"
        /\ out[Len(out)].ev = "DONE"
        /\ out[Len(out)].line.stop = Last.stop

\* the sessionUpdate tags one of the scripts has a branch for
KnownTags ==
    {"agent_message_chunk", "thought_chunk", "plan", "tool_call", "tool_call_update",
     "available_commands_update", "config_options_update", "current_mode_update"}
IsUnknownUpdate(line) == IsUpdate(line) /\ line.tag \notin KnownTags

(* C23: every session/update notification with an unknown sessionUpdate tag *)
(* that read_streaming has taken was reported with its tag, and taking it   *)
(* does not end the streaming phase: after it read_streaming is still       *)
(* waiting, unless the queue timeout has ended the wait since.              *)
C23_UnknownTagSurfaced ==
    /\ \A i \in DOMAIN Streamed :
          IsUnknownUpdate(Streamed[i]) =>
             \E k \in DOMAIN out :
                /\ out[k].step = "session/prompt"
                /\ out[k].line = Streamed[i]
                /\ out[k].line.tag = Streamed[i].tag
    /\ (Taken /\ IsUnknownUpdate(Last)) =>
          \/ pc = "session/prompt" /\ status = "running"
          \/ Left /\ status = "TimedOut"

\* number of threads started with the given target
Started(target) == Cardinality({i \in DOMAIN threads : threads[i] = target})

(* C24: however many times read_responses and read_streaming have been      *)
(* called, _start_reader has started at most one stdout reader thread and   *)
(* at most one stderr reader thread: none before the first call, one of     *)
(* each from the first call on.                                             *)
C24_ReadersStartedOnce ==
    /\ Started("_stdout_reader") = (IF reader_started THEN 1 ELSE 0)
    /\ Started("_stderr_reader") = (IF reader_started THEN 1 ELSE 0)
    /\ Len(threads) = Started("_stdout_reader") + Started("_stderr_reader")

\* read_responses was called at least twice and read_streaming once
C24_Witness ==
    /\ PromptSent
    /\ Len(SelectSeq(stdin, LAMBDA f : f.type = "request")) >= 3
    /\ Started("_stdout_reader") = 1
    /\ Started("_stderr_reader") = 1

(* C25: the lines that have been placed on the response queue (those taken  *)
(* by the main thread and those still queued) are exactly the lines read    *)
(* from the child's stdout, in order; lines of its stderr are never among   *)
(* them, and every line the main thread reports or acts on is one it took   *)
(* from stdout.                                                             *)
C25_StderrNeverQueued ==
    /\ deq + Len(queue) + Len(pipe) = Len(emitted)
    /\ queue = SubSeq(emitted, deq + 1, deq + Len(queue))
    /\ \A k \in DOMAIN out :
          out[k].line # NoLine => \E i \in 1..deq : emitted[i] = out[k].line
    /\ \A k \in DOMAIN responses : \E i \in 1..deq : emitted[i] = responses[k]

\* the stderr reader has read a line that reads as a JSON-RPC response while
\* the main thread was waiting, and the main thread has taken a stdout line
C25_Witness ==
    /\ \E i \in 1..err_read : err_emitted[i].form = "object"
    /\ Len(StderrPrinted) >= 1
    /\ deq > 2
    /\ pc = "session/prompt"

\* the requests main() has written, in send order
Requests == SelectSeq(stdin, LAMBDA f : f.type = "request")

(* C26: the ids of the requests main() has written are 1, 2, 3, ... in send  *)
(* order (1 for initialize, 2 for session/new, consecutive from 3 for the   *)
(* steps that follow, whichever of set_model and set_mode are taken), so    *)
(* they are pairwise distinct and strictly increasing and no id is used     *)
(* twice, whether or not the earlier request has been answered.             *)
C26_RequestIdsIncrease ==
    /\ \A i \in DOMAIN Requests : Requests[i].id = i
    /\ \A i, j \in DOMAIN Requests : i < j => Requests[i].id < Requests[j].id
    /\ Len(Requests) >= 1 => Requests[1].method = "initialize"
    /\ Len(Requests) >= 2 => Requests[2].method = "session/new"

\* both optional steps were taken and the prompt was sent, and the set_mode
\* request was written while session/set_model was unanswered
C26_Witness ==
    /\ Len(Requests) = 5
    /\ Requests[5].method = "session/prompt"
    /\ ~\E i \in DOMAIN emitted : emitted[i].id = FirstReqId

\* the place of a request in the order of main()
Rank(method) ==
    CASE method = "initialize" -> 1
      [] method = "session/new" -> 2
      [] method = "session/set_model" -> 3
      [] method = "session/set_mode" -> 4
      [] method = "session/prompt" -> 5
      [] OTHER -> 0

(* C27: the requests written so far are, in order, initialize, session/new,  *)
(* session/set_model if --model is given, session/set_mode if --mode is     *)
(* given, session/prompt: each at most once, none out of order, none        *)
(* skipped; session/prompt is written only once a session id was obtained   *)
(* and carries it, and nothing is requested after it.                       *)
C27_RequestOrder ==
    /\ \A i \in DOMAIN Requests : Rank(Requests[i].method) >= 1
    /\ \A i, j \in DOMAIN Requests :
          i < j => Rank(Requests[i].method) < Rank(Requests[j].method)
    /\ \A i \in DOMAIN Requests :
          \A r \in 1..(Rank(Requests[i].method) - 1) :
             (r \in {1, 2} \/ (r = 3 /\ use_model) \/ (r = 4 /\ use_mode)) =>
                \E j \in 1..(i - 1) : Rank(Requests[j].method) = r
    /\ \A i \in DOMAIN Requests :
          /\ Requests[i].method = "session/set_model" => use_model
          /\ Requests[i].method = "session/set_mode" => use_mode
          /\ Requests[i].method = "session/prompt" =>
                /\ ~Falsy(session_id)
                /\ Requests[i].sessionId = session_id
                /\ i = Len(Requests)
                /\ \E k \in DOMAIN out : out[k].ev = "session" /\ out[k].line.sid = session_id

\* a run with --mode and without --model has sent its prompt
C27_Witness ==
    /\ ~use_model
    /\ use_mode
    /\ Len(Requests) = 4
    /\ Requests[3].method = "session/set_mode"
    /\ Requests[4].method = "session/prompt"

(* C28: when the child exited by itself while read_streaming was waiting    *)
(* and the wait ended without the prompt's completion, the outcome reported *)
(* is not a timeout: a closed transport is told apart from Timeout.         *)
C28_ClosedTransportDistinct ==
    (child = "exited" /\ Left /\ status # "Completed") =>
        /\ status # "TimedOut"
        /\ out[Len(out)].ev # "timeout"

(* C29: while read_responses is still waiting for the response to           *)
(* initialize, session/new, session/set_model or session/set_mode, no more  *)
(* than the request's timeout has passed since it was called: the wait has  *)
(* ended by then, whatever the peer writes in the meantime.                 *)
C29_WaitEndsByDeadline ==
    pc \in ConfigSteps => now - call_start <= ResponseTimeout

\* index of the first occurrence of call in calls, 0 when there is none
FirstCall(call) ==
    LET S == {i \in DOMAIN calls : calls[i] = call}
    IN  IF S = {} THEN 0 ELSE CHOOSE i \in S : \A j \in S : i <= j

(* C30: in the finally block of main() the first call on the child is       *)
(* terminate() and the second the bounded wait; kill() is called only after *)
(* that wait, only when the child had not ended within it (never when it    *)
(* ended in time), and is followed by a wait; when the block has run to its *)
(* end the child is no longer running.                                      *)
C30_CleanupOrder ==
    /\ calls \in {<<>>, <<"terminate">>, <<"terminate", "wait">>,
                  <<"terminate", "wait", "kill", "wait">>}
    /\ (pc \in {"wait", "done"}) => (calls # <<>> /\ calls[1] = "terminate")
    /\ FirstCall("kill") # 0 =>
          /\ child = "killed"
          /\ FirstCall("kill") = 3
          /\ calls[Len(calls)] = "wait"
    /\ (pc = "done" /\ child = "exited") => FirstCall("kill") = 0
    /\ pc = "done" => child \in {"exited", "killed"}
    /\ pc = "cleanup" => calls = <<>>

\* the child did not end within the bounded wait and was killed and waited for
C30_Witness ==
    /\ pc = "done"
    /\ child = "killed"
    /\ calls = <<"terminate", "wait", "kill", "wait">>

(* C31: the lines the peer has written are, in order, those the main thread *)
(* has taken, those on the queue and those not yet read: no line is lost,   *)
(* duplicated or reordered.  A step of the reader thread moves the oldest   *)
(* unread line to the end of the queue whatever main() is doing; a step of  *)
(* the main thread that takes a line takes the oldest line not yet taken,   *)
(* and it is that line it collects or reports; and a step of main() from    *)
(* one wait to the next leaves the queue as it is, so what arrived in       *)
(* between is delivered first to the next wait.                             *)
C31_ReaderKeepsOrder ==
    [][/\ deq + Len(queue) + Len(pipe) = Len(emitted)
       /\ queue \o pipe = SubSeq(emitted, deq + 1, Len(emitted))
       /\ deq' \in {deq, deq + 1}
       /\ deq' = deq + 1 =>
             /\ queue # <<>>
             /\ Head(queue) = emitted[deq + 1]
             /\ queue' = Tail(queue)
             /\ responses' # responses => responses' = Append(responses, emitted[deq + 1])
             /\ out' # out => out'[Len(out')].line = emitted[deq + 1]
       /\ deq' = deq =>
             \/ queue' = queue
             \/ /\ pipe # <<>>
                /\ queue' = Append(queue, Head(pipe))
                /\ pipe' = Tail(pipe)
                /\ pc' = pc
      ]_vars

\* the response to initialize was written too late for the initialize wait
\* and was delivered to the wait that follows session/new
C31_Witness ==
    /\ pc = "session/new"
    /\ \E i \in DOMAIN responses :
          IsResponse(responses[i]) /\ responses[i].id = InitializeId
    /\ \E k \in DOMAIN out : out[k].ev = "init"

(* C32: when the wait that follows initialize ends and the request was      *)
(* answered with an error response (a frame with the id of initialize and   *)
(* an error member) and with no result, main() does not go on to            *)
(* session/new: it leaves the try block and writes nothing.                 *)
C32_InitializeErrorStops ==
    [][(/\ pc = "initialize"
        /\ pc' # pc
        /\ \E i \in DOMAIN responses :
              IsResponse(responses[i]) /\ responses[i].id = InitializeId
                 /\ responses[i].body = "error"
        /\ ~\E i \in DOMAIN responses :
              IsResponse(responses[i]) /\ responses[i].id = InitializeId
                 /\ responses[i].body = "result") =>
          /\ stdin' = stdin
          /\ pc' = "cleanup"
      ]_vars


(* C33: in test-gen-acp.py nothing is written to the child's stdin from the *)
(* moment session/prompt was written until the try block is left: the last  *)
(* frame on stdin stays the one session/prompt request and no response      *)
(* frame is ever written, so a session/request_permission or another        *)
(* request of the peer taken from the queue during streaming is consumed    *)
(* without an answer.                                                       *)
C33_GenNeverWrites ==
    (script = TestGen /\ Streaming) =>
       /\ Replies = <<>>
       /\ stdin[Len(stdin)].type = "request"
       /\ stdin[Len(stdin)].method = "session/prompt"
       /\ Cardinality({i \in DOMAIN stdin : stdin[i].method = "session/prompt"}) = 1

\* a permission request with an allow option and a file read request were
\* both taken, and then the turn completed
C33_Witness ==
    /\ script = TestGen
    /\ status = "Completed"
    /\ \E i \in (stream_start + 1)..deq :
          IsPermission(emitted[i]) /\ emitted[i].id # NoId
             /\ AllowIndices(emitted[i].options) # {}
    /\ \E j \in (stream_start + 1)..deq : IsOtherRequest(emitted[j])


(* C34: in read_streaming of the two test-acp.py scripts a response frame   *)
(* is written to stdin only by the step that takes a peer request (a frame  *)
(* with method and id) from the queue: that step writes one response, with  *)
(* the id of the request it took, and no other step writes one; so the      *)
(* responses written never outnumber the peer requests taken, and no        *)
(* response has an id the peer did not use in a request.                    *)
C34_OneReplyPerRequest ==
    [][/\ Replies' # Replies =>
             /\ pc = "session/prompt"
             /\ queue # <<>>
             /\ deq' = deq + 1
             /\ IsPeerRequest(Head(queue))
             /\ Head(queue) = emitted[deq + 1]
             /\ stdin' = Append(stdin, stdin'[Len(stdin')])
             /\ stdin'[Len(stdin')].type \in {"result", "error"}
             /\ stdin'[Len(stdin')].id = Head(queue).id
       /\ Len(Replies) <= Cardinality({k \in 1..deq : IsPeerRequest(emitted[k])})
       /\ \A i \in DOMAIN Replies :
             \E k \in 1..deq : IsPeerRequest(emitted[k]) /\ emitted[k].id = Replies[i].id
      ]_vars

\* the peer asked for a permission and for a file, each was answered once,
\* and the turn completed
C34_Witness ==
    /\ status = "Completed"
    /\ Len(Replies) = 2
    /\ {Replies[1].id, Replies[2].id} = {7, 8}
    /\ Cardinality({k \in (stream_start + 1)..deq : IsPeerRequest(emitted[k])}) = 2


(* C35: whenever the client writes a permission response (outcome           *)
(* "selected"), the step takes a session/request_permission request from    *)
(* the queue, the response carries that request's id, and its optionId is   *)
(* the optionId of an option of that same request whose kind is allow_once  *)
(* or allow_always; a request with reject options only gets no response,    *)
(* whatever was selected for an earlier request.                            *)
C35_SelectedIsAllowOfSameRequest ==
    [][/\ (Len(stdin') > Len(stdin) /\ stdin'[Len(stdin')].outcome = "selected") =>
             /\ queue # <<>>
             /\ deq' = deq + 1
             /\ IsPermission(Head(queue))
             /\ stdin'[Len(stdin')].id = Head(queue).id
             /\ \E i \in AllowIndices(Head(queue).options) :
                   Head(queue).options[i].optionId = stdin'[Len(stdin')].optionId
       /\ (queue # <<>> /\ deq' = deq + 1 /\ IsPermission(Head(queue))
             /\ AllowIndices(Head(queue).options) = {}) => stdin' = stdin
      ]_vars

\* a request offering allow and reject options was answered, and a later
\* request offering a reject option only was taken and got no response
C35_Witness ==
    /\ Taken
    /\ deq = stream_start + 2
    /\ IsPermission(emitted[deq - 1]) /\ emitted[deq - 1].id # NoId
    /\ AllowIndices(emitted[deq - 1].options) # {}
    /\ AllowIndices(emitted[deq - 1].options) # DOMAIN emitted[deq - 1].options
    /\ IsPermission(Last) /\ Last.id # NoId /\ Last.options # <<>>
    /\ AllowIndices(Last.options) = {}
    /\ Len(Replies) = 1
    /\ Replies[1].outcome = "selected"


(* C36: when read_streaming has been left, it ended in exactly one of two   *)
(* ways: Completed, and then the last line taken is a response with         *)
(* stopReason, or TimedOut, reported when the queue was found empty.        *)
C36_EndsCompletedOrTimedOut ==
    (Streaming /\ Left) =>
       /\ status \in {"Completed", "TimedOut"}
       /\ status = "Completed" <=> (Taken /\ IsTerminal(Last))
       /\ status = "TimedOut" => out[Len(out)].ev = "timeout"


(* C37: once read_streaming has returned on completion, main() takes no     *)
(* further line from the queue, reports nothing more and writes nothing to  *)
(* stdin, up to and through the termination of the child; the line it took  *)
(* last stays the terminal response, so whatever the peer wrote after it,   *)
(* peer requests included, is left on the queue or in the pipe.             *)
C37_NothingAfterCompletion ==
    [][(Streaming /\ status = "Completed") =>
          /\ Left
          /\ IsTerminal(Last)
          /\ deq' = deq
          /\ stdin' = stdin
          /\ out' = out
          /\ msg_count' = msg_count
          /\ status' = status
          /\ \/ queue' = queue
             \/ pipe # <<>> /\ queue' = Append(queue, Head(pipe))
      ]_vars

\* the peer wrote a permission request with an allow option after the
\* terminal response; the reader queued it, and the run ended without it
\* having been taken or answered
C37_Witness ==
    /\ status = "Completed"
    /\ pc = "done"
    /\ queue # <<>>
    /\ Head(queue) = emitted[deq + 1]
    /\ IsPermission(Head(queue)) /\ Head(queue).id # NoId
    /\ AllowIndices(Head(queue).options) # {}
    /\ Replies = <<>>


\* the frames collected in a wait whose result has a sessionId member
WithSessionId(rs) ==
    {i \in DOMAIN rs : IsObject(rs[i]) /\ rs[i].body = "result" /\ rs[i].sid # Absent}

\* the requests written to stdin that name a session
SessionRequests ==
    {i \in DOMAIN stdin :
        stdin[i].type = "request"
           /\ stdin[i].method \in {"session/set_model", "session/set_mode", "session/prompt"}}

(* C38: the session id changes only in the step that ends the session/new   *)
(* wait, where it goes from unset to the sessionId of the first frame       *)
(* collected in that wait whose result has one; it is never changed again,  *)
(* whatever sessionId later frames carry; and every session/set_model,      *)
(* session/set_mode and session/prompt request written carries that value.  *)
C38_SessionIdAssignedOnce ==
    [][/\ session_id' # session_id =>
             /\ pc = "session/new"
             /\ session_id = Absent
             /\ WithSessionId(responses) # {}
             /\ \E k \in WithSessionId(responses) :
                   /\ \A j \in WithSessionId(responses) : k <= j
                   /\ session_id' = responses[k].sid
       /\ \A i \in SessionRequests : stdin[i].sessionId = session_id
       /\ Len(stdin') > Len(stdin) /\ stdin'[Len(stdin')].type = "request"
             /\ stdin'[Len(stdin')].method \notin {"initialize", "session/new"}
             => stdin'[Len(stdin')].sessionId = session_id'
       /\ SessionRequests # {} => session_id \notin {Absent, ""}
      ]_vars

\* session/new was answered with sessionId S1, the response taken in the
\* session/set_model wait carried sessionId S2, and the prompt was sent for S1
C38_Witness ==
    /\ session_id = "S1"
    /\ PromptSent
    /\ Cardinality(SessionRequests) >= 2
    /\ \E k \in 1..deq : IsResponse(emitted[k]) /\ emitted[k].sid = "S2"
    /\ \A i \in SessionRequests : stdin[i].sessionId = "S1"

=============================================================================
